---- MODULE Spec2Model ----
(***************************************************************************)
(* A model of the ankisocial core data model: the User account store       *)
(* (core/models/user.py), the ActivityLog journal (core/models/log.py)     *)
(* and the Post / Reaction content store (core/models/post.py).            *)
(*                                                                         *)
(* The database is the committed state (users, log, posts, reactions),     *)
(* the file storage is `files`, and every worker process holds at most one *)
(* loaded User instance (`inst`), the way a request handler does.  Django  *)
(* runs in autocommit mode: every ORM statement outside transaction.atomic *)
(* commits on its own, so a method that issues two statements is two       *)
(* steps of the model.                                                     *)
(***************************************************************************)
EXTENDS Integers, Sequences, FiniteSets, TLC

\* ------------------------------------------------------------------ bounds
MaxProcs == 2
MaxUsers == 2
MaxClock == 2
MaxEmailLen == 2
MaxFiles == 1
MaxPosts == 1
MaxReactions == 2

Procs == 1..MaxProcs

\* The worker of the specifications in which calls are made one after another.
Solo == {1}

\* ------------------------------------------------------------------ values
\* Python's None / SQL NULL.  Primary keys, tokens, timestamps and file names
\* are positive numbers, so 0 never collides with a real value.
None == 0

\* The characters e-mail addresses are built from: a lower-case letter, its
\* upper-case form, and a blank.
Chars == {"a", "A", " "}

EmailInputs == UNION {[1..n -> Chars] : n \in 0..MaxEmailLen}

VARIABLES
    users,       \* the core_user table: pk -> row
    nextId,      \* the table's AutoField sequence
    log,         \* the core_activitylog table, in insertion order
    posts,       \* the core_post table
    nextPost,    \* the core_post AutoField sequence
    reactions,   \* the core_reaction table
    nextReaction,\* the core_reaction AutoField sequence
    files,       \* names present in the file storage
    nextFile,    \* source of the random 7-character file-name suffixes
    clock,       \* django.utils.timezone.now()
    nextTok,     \* source of get_random_string(32) values
    pc,          \* each worker's position
    inst,        \* each worker's loaded User instance
    pending,     \* each worker's uncommitted write inside transaction.atomic
    result,      \* the latest finished call: its worker, outcome and return value
    lastEmail,   \* the e-mail keyword argument of the latest create / edit call
    rendered     \* what the latest ActivityLog.display call produced

vars == <<users, nextId, log, posts, nextPost, reactions, nextReaction, files,
          nextFile, clock, nextTok, pc, inst, pending, result, lastEmail,
          rendered>>

contentVars == <<posts, nextPost, reactions, nextReaction>>
storageVars == <<files, nextFile>>

\* ------------------------------------------------------ e-mail normalisation
LowerChar(c) == IF c = "A" THEN "a" ELSE c

\* str.lower()
Lower(s) == [i \in 1..Len(s) |-> LowerChar(s[i])]

RECURSIVE LStrip(_)
LStrip(s) == IF s # <<>> /\ Head(s) = " " THEN LStrip(Tail(s)) ELSE s

RECURSIVE RStrip(_)
RStrip(s) ==
    IF s # <<>> /\ s[Len(s)] = " " THEN RStrip(SubSeq(s, 1, Len(s) - 1)) ELSE s

\* str.strip()
Strip(s) == RStrip(LStrip(s))

\* A normalisation that forgets to lower-case.
NormalizeEmail_StripOnly(e) == Strip(e)

\* self.email.lower().strip()
NormalizeEmail(e) == Strip(Lower(e))

\* ------------------------------------------------------------ call outcomes
NoResult == [proc |-> None, status |-> "none", value |-> None]

\* Worker p's call returned v.
Returned(p, v) == [proc |-> p, status |-> "ok", value |-> v]

\* Worker p's call raised the exception exc.
Raised(p, exc) == [proc |-> p, status |-> exc, value |-> None]

\* ------------------------------------------------------------ User instances
NoInst == [pk |-> None, email |-> <<>>, avatar |-> None, pw_reset_token |-> None,
           pw_reset_time |-> None, app_token |-> None]

\* A save that leaves the pw_reset_time column out of its UPDATE.
RowOf_WithoutResetTime(i) ==
    [email |-> i.email, avatar |-> i.avatar, pw_reset_token |-> i.pw_reset_token,
     pw_reset_time |-> None, app_token |-> i.app_token]

\* The columns Model.save() writes: every field of the instance.
RowOf(i) == [email |-> i.email, avatar |-> i.avatar,
             pw_reset_token |-> i.pw_reset_token,
             pw_reset_time |-> i.pw_reset_time, app_token |-> i.app_token]

\* No write is waiting inside a transaction.
NoPending == [pk |-> None, row |-> RowOf(NoInst)]

InstOf(u) == [pk |-> u, email |-> users[u].email, avatar |-> users[u].avatar,
              pw_reset_token |-> users[u].pw_reset_token,
              pw_reset_time |-> users[u].pw_reset_time,
              app_token |-> users[u].app_token]

Exists(u) == u \in DOMAIN users

\* email = models.EmailField(unique=True): another row already holds e.
UniqueViolation(pk, e) == \E u \in DOMAIN users : u # pk /\ users[u].email = e

\* Model.save() on an instance with a primary key: UPDATE every column of the
\* row and, when no row has that key, INSERT it.
WriteRow(tbl, pk, row) == [u \in DOMAIN tbl \cup {pk} |-> IF u = pk THEN row ELSE tbl[u]]

\* ---------------------------------------------------------------- the journal
ACTIONS_MAP == ("user.password.reset" :> "Password reset email was sent.")
           @@ ("user.token.reset" :> "API token was reset")

\* Tags handed to log_action: the two curated ones, one the map does not
\* know, and the empty tag.
ActionTags == {"user.password.reset", "user.token.reset", "user.created", ""}

\* ActivityLog.objects.create(user=user or self, content_object=self, ...);
\* timestamp is auto_now_add.
LogEntry(self, action, user, ts) ==
    [user |-> IF user # None THEN user ELSE self, content_type |-> "user",
     object_id |-> self, timestamp |-> ts, action_type |-> action, data |-> None]

\* Indices of the journal rows a queryset filter keeps.
RECURSIVE SortNewestFirst(_)
SortNewestFirst(S) ==
    IF S = {} THEN <<>>
    ELSE LET k == CHOOSE x \in S : \A y \in S : log[y].timestamp <= log[x].timestamp
         IN  <<k>> \o SortNewestFirst(S \ {k})

RECURSIVE SortOldestFirst(_)
SortOldestFirst(S) ==
    IF S = {} THEN <<>>
    ELSE LET k == CHOOSE x \in S : \A y \in S : log[x].timestamp <= log[y].timestamp
         IN  <<k>> \o SortOldestFirst(S \ {k})

\* ordering = ("timestamp",): the minus sign lost.
Ordering_Ascending(S) == SortOldestFirst(S)

\* class Meta: ordering = ("-timestamp",)
Ordering(S) == SortNewestFirst(S)

\* User.logged_actions(): the entries about u, in Meta.ordering.
logged_actions(u) ==
    Ordering({k \in 1..Len(log) : log[k].content_type = "user" /\ log[k].object_id = u})

\* User.own_actions(): the entries u is the actor of.
own_actions(u) == Ordering({k \in 1..Len(log) : log[k].user = u})

\* display() with ACTIONS[self.action_type] in place of ACTIONS.get(...): an
\* unknown tag raises KeyError.
display_KeyError(action_type) ==
    IF action_type \in DOMAIN ACTIONS_MAP
    THEN [action_type |-> action_type, text |-> ACTIONS_MAP[action_type],
          warning |-> FALSE]
    ELSE [action_type |-> action_type, text |-> "KeyError", warning |-> FALSE]

\* ActivityLog.display(): the mapped text when the map has a (truthy) entry
\* for the tag, else a logged warning and the tag itself.
display(action_type) ==
    IF action_type \in DOMAIN ACTIONS_MAP /\ ACTIONS_MAP[action_type] # ""
    THEN [action_type |-> action_type, text |-> ACTIONS_MAP[action_type],
          warning |-> FALSE]
    ELSE [action_type |-> action_type, text |-> action_type, warning |-> TRUE]

NoRender == [action_type |-> "", text |-> "", warning |-> FALSE]

\* ------------------------------------------------------------- the content store
\* class PostType(models.TextChoices)
PostType == {"text", "streak", "day", "day_cards", "day_duration"}

\* len() of each PostType value.
ValueLen(kind) ==
    CASE kind = "text" -> 4
      [] kind = "streak" -> 6
      [] kind = "day" -> 3
      [] kind = "day_cards" -> 9
      [] kind = "day_duration" -> 12

\* post_type = models.CharField(max_length=10, ...)
PostTypeMaxLength == 10

\* Keys a payload may carry.
PayloadKeys == {"text", "days", "cards", "cards_unique", "duration"}

\* The payload shapes the comment above Post.data documents.
HasRequiredKeys(kind, data) ==
    CASE kind = "text" -> "text" \in data
      [] kind = "streak" -> "days" \in data
      [] kind = "day" -> {"cards", "duration"} \subseteq data
      [] kind = "day_cards" -> "cards" \in data \/ "cards_unique" \in data
      [] kind = "day_duration" -> "duration" \in data

\* ------------------------------------------------------------------ initial state
Init ==
    /\ users = <<>>
    /\ nextId = 1
    /\ log = <<>>
    /\ posts = {}
    /\ nextPost = 1
    /\ reactions = {}
    /\ nextReaction = 1
    /\ files = {}
    /\ nextFile = 1
    /\ clock = 0
    /\ nextTok = 1
    /\ pc = [p \in Procs |-> "none"]
    /\ inst = [p \in Procs |-> NoInst]
    /\ pending = [p \in Procs |-> NoPending]
    /\ result = NoResult
    /\ lastEmail = <<>>
    /\ rendered = NoRender

\* ------------------------------------------------------------ the account store
\* UserManager.create_user(email=e, avatar=<upload> if av): build the
\* instance, then User.save().  The upload is written to the storage by the
\* field's pre_save, before the INSERT that the unique index may refuse.
CreateUser(p, e, av) ==
    /\ pc[p] \in {"none", "idle"}
    /\ nextId <= MaxUsers
    /\ av => nextFile <= MaxFiles
    /\ LET n == NormalizeEmail(e)
           new == [NoInst EXCEPT !.pk = nextId, !.email = n,
                                 !.avatar = IF av THEN nextFile ELSE None]
       IN  /\ lastEmail' = e
           /\ files' = IF av THEN files \cup {nextFile} ELSE files
           /\ nextFile' = IF av THEN nextFile + 1 ELSE nextFile
           /\ IF UniqueViolation(None, n)
              THEN /\ UNCHANGED <<users, nextId>>
                   /\ pc' = [pc EXCEPT ![p] = "none"]
                   /\ inst' = [inst EXCEPT ![p] = NoInst]
                   /\ result' = Raised(p, "IntegrityError")
              ELSE /\ users' = WriteRow(users, nextId, RowOf(new))
                   /\ nextId' = nextId + 1
                   /\ pc' = [pc EXCEPT ![p] = "idle"]
                   /\ inst' = [inst EXCEPT ![p] = new]
                   /\ result' = Returned(p, new.pk)
    /\ UNCHANGED <<log, contentVars, clock, nextTok, pending, rendered>>

\* User.objects.get(pk=u): a worker loads its own copy of the row.
Load(p, u) ==
    /\ pc[p] \in {"none", "idle"}
    /\ Exists(u)
    /\ pc' = [pc EXCEPT ![p] = "idle"]
    /\ inst' = [inst EXCEPT ![p] = InstOf(u)]
    /\ result' = Returned(p, u)
    /\ UNCHANGED <<users, nextId, log, contentVars, storageVars, clock, nextTok,
                   pending, lastEmail, rendered>>

\* A profile edit: user.email = e; user.save().
EditProfile(p, e) ==
    /\ pc[p] = "idle"
    /\ LET n == NormalizeEmail(e)
           new == [inst[p] EXCEPT !.email = n]
       IN  /\ lastEmail' = e
           /\ inst' = [inst EXCEPT ![p] = new]
           /\ IF UniqueViolation(new.pk, n)
              THEN /\ UNCHANGED users
                   /\ result' = Raised(p, "IntegrityError")
              ELSE /\ users' = WriteRow(users, new.pk, RowOf(new))
                   /\ result' = Returned(p, None)
    /\ UNCHANGED <<nextId, log, contentVars, storageVars, clock, nextTok, pc,
                   pending, rendered>>

\* User.log_action(action): one ActivityLog row, stamped with the current
\* time.  The actor foreign key refuses a user whose row is gone.
LogAction(p, action) ==
    /\ pc[p] = "idle"
    /\ clock < MaxClock
    /\ IF Exists(inst[p].pk)
       THEN /\ log' = Append(log, LogEntry(inst[p].pk, action, None, clock + 1))
            /\ clock' = clock + 1
            /\ result' = Returned(p, None)
       ELSE /\ UNCHANGED <<log, clock>>
            /\ result' = Raised(p, "IntegrityError")
    /\ UNCHANGED <<users, nextId, contentVars, storageVars, nextTok, pc, inst,
                   pending, lastEmail, rendered>>

\* regenerate_token, line 181: self.log_action(action="user.token.reset").
RegenLog(p) ==
    /\ pc[p] = "idle"
    /\ clock < MaxClock
    /\ IF Exists(inst[p].pk)
       THEN /\ log' = Append(log, LogEntry(inst[p].pk, "user.token.reset", None,
                                           clock + 1))
            /\ clock' = clock + 1
            /\ pc' = [pc EXCEPT ![p] = "regen"]
            /\ UNCHANGED result
       ELSE /\ UNCHANGED <<log, clock, pc>>
            /\ result' = Raised(p, "IntegrityError")
    /\ UNCHANGED <<users, nextId, contentVars, storageVars, nextTok, inst,
                   pending, lastEmail, rendered>>

\* regenerate_token, lines 182-184: a fresh token, self.save(), return it.
RegenSave(p) ==
    /\ pc[p] = "regen"
    /\ LET new == [inst[p] EXCEPT !.app_token = nextTok,
                                  !.email = NormalizeEmail(inst[p].email)]
       IN  /\ inst' = [inst EXCEPT ![p] = new]
           /\ IF UniqueViolation(new.pk, new.email)
              THEN /\ UNCHANGED users
                   /\ result' = Raised(p, "IntegrityError")
              ELSE /\ users' = WriteRow(users, new.pk, RowOf(new))
                   /\ result' = Returned(p, new.app_token)
    /\ nextTok' = nextTok + 1
    /\ pc' = [pc EXCEPT ![p] = "idle"]
    /\ UNCHANGED <<nextId, log, contentVars, storageVars, clock, pending,
                   lastEmail, rendered>>

\* reset_password, lines 188-192, with the transaction committing each
\* statement at once, as it would without @transaction.atomic.
ResetSave_Autocommit(p) ==
    /\ pc[p] = "idle"
    /\ clock < MaxClock
    /\ LET new == [inst[p] EXCEPT !.pw_reset_token = nextTok,
                                  !.pw_reset_time = clock + 1,
                                  !.email = NormalizeEmail(inst[p].email)]
       IN  /\ inst' = [inst EXCEPT ![p] = new]
           /\ IF UniqueViolation(new.pk, new.email)
              THEN /\ UNCHANGED users
                   /\ pc' = [pc EXCEPT ![p] = "idle"]
                   /\ result' = Raised(p, "IntegrityError")
              ELSE /\ users' = WriteRow(users, new.pk, RowOf(new))
                   /\ pc' = [pc EXCEPT ![p] = "reset"]
                   /\ UNCHANGED result
    /\ clock' = clock + 1
    /\ nextTok' = nextTok + 1
    /\ UNCHANGED <<nextId, log, contentVars, storageVars, pending, lastEmail,
                   rendered>>

\* reset_password, lines 188-192: enter transaction.atomic, draw the token,
\* stamp the time, self.save().  The write stays inside the transaction.
ResetSave(p) ==
    /\ pc[p] = "idle"
    /\ clock < MaxClock
    /\ LET new == [inst[p] EXCEPT !.pw_reset_token = nextTok,
                                  !.pw_reset_time = clock + 1,
                                  !.email = NormalizeEmail(inst[p].email)]
       IN  /\ inst' = [inst EXCEPT ![p] = new]
           /\ IF UniqueViolation(new.pk, new.email)
              THEN /\ UNCHANGED pending
                   /\ pc' = [pc EXCEPT ![p] = "idle"]
                   /\ result' = Raised(p, "IntegrityError")
              ELSE /\ pending' = [pending EXCEPT
                                    ![p] = [pk |-> new.pk, row |-> RowOf(new)]]
                   /\ pc' = [pc EXCEPT ![p] = "reset"]
                   /\ UNCHANGED result
    /\ clock' = clock + 1
    /\ nextTok' = nextTok + 1
    /\ UNCHANGED <<users, nextId, log, contentVars, storageVars, lastEmail,
                   rendered>>

\* reset_password, line 194: build_absolute_uri is a name the module never
\* binds, so the call raises NameError; transaction.atomic rolls the write
\* back and the error reaches the caller.  Lines 197-218 are never run.
ResetRaise(p) ==
    /\ pc[p] = "reset"
    /\ pending' = [pending EXCEPT ![p] = NoPending]
    /\ pc' = [pc EXCEPT ![p] = "idle"]
    /\ result' = Raised(p, "NameError")
    /\ UNCHANGED <<users, nextId, log, contentVars, storageVars, clock, nextTok,
                   inst, lastEmail, rendered>>

\* ------------------------------------------------------------- deleting a user
\* FileCleanupMixin._delete_files(): the avatar is the one FileField.  The
\* storage either removes the file, and the instance's field is cleared, or
\* it raises and suppress(Exception) swallows the error.
DeleteFiles(p) ==
    /\ pc[p] = "idle"
    /\ \E removed \in BOOLEAN :
         IF inst[p].avatar # None /\ removed
         THEN /\ files' = files \ {inst[p].avatar}
              /\ inst' = [inst EXCEPT ![p].avatar = None]
         ELSE UNCHANGED <<files, inst>>
    /\ pc' = [pc EXCEPT ![p] = "delete"]
    /\ UNCHANGED result
    /\ UNCHANGED <<users, nextId, log, contentVars, nextFile, clock, nextTok,
                   pending, lastEmail, rendered>>

\* The actor key with on_delete=DO_NOTHING: no journal row protects the user.
Protected_Never(u) == FALSE

\* ActivityLog.user is on_delete=PROTECT.
Protected(u) == \E k \in 1..Len(log) : log[k].user = u

\* Post.user is on_delete=CASCADE.
PostsOf(u) == {q \in posts : q.user = u}

\* Reaction.user and Reaction.post are on_delete=CASCADE.
ReactionsGoneWith(u) ==
    {r \in reactions : r.user = u \/ r.post \in {q.id : q \in PostsOf(u)}}

\* FileCleanupMixin.delete, line 57: Model.delete() collects the rows that
\* reference the user, refuses when a protected one does, and otherwise
\* deletes the cascade and the row in one transaction.
DeleteRow(p) ==
    /\ pc[p] = "delete"
    /\ IF Protected(inst[p].pk)
       THEN /\ UNCHANGED <<users, posts, reactions, inst>>
            /\ pc' = [pc EXCEPT ![p] = "idle"]
            /\ result' = Raised(p, "ProtectedError")
       ELSE /\ users' = [u \in DOMAIN users \ {inst[p].pk} |-> users[u]]
            /\ posts' = posts \ PostsOf(inst[p].pk)
            /\ reactions' = reactions \ ReactionsGoneWith(inst[p].pk)
            /\ inst' = [inst EXCEPT ![p] = NoInst]
            /\ pc' = [pc EXCEPT ![p] = "none"]
            /\ result' = Returned(p, None)
    /\ UNCHANGED <<nextId, log, nextPost, nextReaction, storageVars, clock,
                   nextTok, pending, lastEmail, rendered>>

\* ------------------------------------------------------------ posts, reactions
\* Post.objects.create(user=self, post_type=kind, data=payload): nothing
\* looks at the payload's keys.  A value longer than max_length is refused
\* by a database that enforces varchar(10) and kept by one that does not.
PublishPost(p, kind, data) ==
    /\ pc[p] = "idle"
    /\ nextPost <= MaxPosts
    /\ \E enforced \in BOOLEAN :
         IF ~Exists(inst[p].pk)
         THEN /\ UNCHANGED <<posts, nextPost>>
              /\ result' = Raised(p, "IntegrityError")
         ELSE IF enforced /\ ValueLen(kind) > PostTypeMaxLength
         THEN /\ UNCHANGED <<posts, nextPost>>
              /\ result' = Raised(p, "DataError")
         ELSE /\ posts' = posts \cup {[id |-> nextPost, user |-> inst[p].pk,
                                       post_type |-> kind, data |-> data]}
              /\ nextPost' = nextPost + 1
              /\ result' = Returned(p, None)
    /\ UNCHANGED <<users, nextId, log, reactions, nextReaction, storageVars,
                   clock, nextTok, pc, inst, pending, lastEmail, rendered>>

\* Reaction.objects.create(user=self, post=q): reaction_type defaults to
\* ReactionType.WHEE.
React(p, q) ==
    /\ pc[p] = "idle"
    /\ nextReaction <= MaxReactions
    /\ q \in {x.id : x \in posts}
    /\ IF Exists(inst[p].pk)
       THEN /\ reactions' = reactions \cup {[id |-> nextReaction,
                                             reaction_type |-> "whee",
                                             user |-> inst[p].pk, post |-> q]}
            /\ nextReaction' = nextReaction + 1
            /\ result' = Returned(p, None)
       ELSE /\ UNCHANGED <<reactions, nextReaction>>
            /\ result' = Raised(p, "IntegrityError")
    /\ UNCHANGED <<users, nextId, log, posts, nextPost, storageVars, clock,
                   nextTok, pc, inst, pending, lastEmail, rendered>>

\* ------------------------------------------------------------------- rendering
\* entry.display() on the k-th journal row.
Display(k) ==
    /\ k \in 1..Len(log)
    /\ rendered' = display(log[k].action_type)
    /\ UNCHANGED <<users, nextId, log, contentVars, storageVars, clock, nextTok,
                   pc, inst, pending, result, lastEmail>>

\* ------------------------------------------------------------- specifications
\* Addresses for the specifications that are not about normalisation.
PlainEmails == {<<"a">>, <<"a", "a">>}

\* Token rotation by concurrent workers, with loaded copies and profile edits.
NextRegen ==
    \/ \E p \in Procs, e \in PlainEmails : CreateUser(p, e, FALSE)
    \/ \E p \in Procs, u \in 1..MaxUsers : Load(p, u)
    \/ \E p \in Procs : EditProfile(p, inst[p].email)
    \/ \E p \in Procs : RegenLog(p)
    \/ \E p \in Procs : RegenSave(p)

SpecRegen == Init /\ [][NextRegen]_vars

\* Password resets by concurrent workers, with loaded copies and profile edits.
NextReset ==
    \/ \E p \in Procs, e \in PlainEmails : CreateUser(p, e, FALSE)
    \/ \E p \in Procs, u \in 1..MaxUsers : Load(p, u)
    \/ \E p \in Procs : EditProfile(p, inst[p].email)
    \/ \E p \in Procs : ResetSave(p)
    \/ \E p \in Procs : ResetRaise(p)

SpecReset == Init /\ [][NextReset]_vars

\* Token rotation and password resets together.
NextAccount ==
    \/ \E p \in Procs, e \in PlainEmails : CreateUser(p, e, FALSE)
    \/ \E p \in Procs, u \in 1..MaxUsers : Load(p, u)
    \/ \E p \in Procs : EditProfile(p, inst[p].email)
    \/ \E p \in Procs : RegenLog(p)
    \/ \E p \in Procs : RegenSave(p)
    \/ \E p \in Procs : ResetSave(p)
    \/ \E p \in Procs : ResetRaise(p)

SpecAccount == Init /\ [][NextAccount]_vars

\* Creating and editing accounts under every spelling of an address.
NextEmail ==
    \/ \E p \in Solo, e \in EmailInputs : CreateUser(p, e, FALSE)
    \/ \E p \in Solo, u \in 1..MaxUsers : Load(p, u)
    \/ \E p \in Solo, e \in EmailInputs : EditProfile(p, e)

SpecEmail == Init /\ [][NextEmail]_vars

\* Deleting users that own posts and reactions and act in journal rows.
NextDelete ==
    \/ \E p \in Solo, e \in PlainEmails : CreateUser(p, e, FALSE)
    \/ \E p \in Solo, u \in 1..MaxUsers : Load(p, u)
    \/ \E p \in Solo : LogAction(p, "user.token.reset")
    \/ \E p \in Solo : PublishPost(p, "text", {"text"})
    \/ \E p \in Solo, q \in 1..MaxPosts : React(p, q)
    \/ \E p \in Solo : DeleteFiles(p)
    \/ \E p \in Solo : DeleteRow(p)

SpecDelete == Init /\ [][NextDelete]_vars

\* Deleting users that uploaded an avatar.
NextAvatar ==
    \/ \E p \in Solo, e \in PlainEmails, av \in BOOLEAN : CreateUser(p, e, av)
    \/ \E p \in Solo, u \in 1..MaxUsers : Load(p, u)
    \/ \E p \in Solo : LogAction(p, "user.token.reset")
    \/ \E p \in Solo : DeleteFiles(p)
    \/ \E p \in Solo : DeleteRow(p)

SpecAvatar == Init /\ [][NextAvatar]_vars

\* Publishing posts of every kind with every payload shape.
NextPost ==
    \/ \E p \in Solo, e \in PlainEmails : CreateUser(p, e, FALSE)
    \/ \E p \in Solo, kind \in PostType, data \in SUBSET PayloadKeys :
         PublishPost(p, kind, data)

SpecPost == Init /\ [][NextPost]_vars

\* Journal rows with curated and unknown tags, and their rendering.
NextRender ==
    \/ \E p \in Solo, e \in PlainEmails : CreateUser(p, e, FALSE)
    \/ \E p \in Solo, action \in ActionTags : LogAction(p, action)
    \/ \E k \in 1..MaxClock : Display(k)

SpecRender == Init /\ [][NextRender]_vars

\* Every operation of the model.
Next == NextRegen \/ NextReset \/ NextEmail \/ NextDelete \/ NextAvatar \/ NextPost \/ NextRender

Spec == Init /\ [][Next]_vars

\* ================================================================== properties

\* Worker p finishes regenerate_token in this step.
RegenReturns(p) == pc[p] = "regen" /\ pc'[p] = "idle"

\* Worker p draws a password-reset token in this step.
ResetDraws(p) == nextTok' = nextTok + 1 /\ inst'[p].pw_reset_token = nextTok

\* Worker p leaves reset_password in this step.
ResetEnds(p) == pc[p] = "reset" /\ pc'[p] # "reset"

\* C1: when regenerate_token returns, the persisted app token is the returned
\* one, and a token that a regeneration has replaced is never the persisted
\* app token again, whatever is saved later.  Tokens are numbered in the
\* order they are drawn and each is stored when drawn, so the second part
\* says that no save replaces the persisted token by an earlier one.
C1_OldTokenStaysRevoked ==
    [][/\ \A p \in Procs :
            RegenReturns(p) /\ result'.status = "ok"
            => users'[inst[p].pk].app_token = result'.value
       /\ \A u \in DOMAIN users \cap DOMAIN users' :
            ~(/\ users'[u].app_token # None
              /\ users'[u].app_token < users[u].app_token)]_vars

\* C2: reset_password on an existing user ends without raising, with the
\* fresh token and the time of the call persisted and exactly one new
\* "user.password.reset" journal row about the user.
C2_ResetSucceeds ==
    [][\A p \in Procs :
         ResetEnds(p)
         => /\ result'.status = "ok"
            /\ users'[inst[p].pk].pw_reset_token = inst[p].pw_reset_token
            /\ users'[inst[p].pk].pw_reset_time = inst[p].pw_reset_time
            /\ Len(log') = Len(log) + 1
            /\ log'[Len(log')].action_type = "user.password.reset"
            /\ log'[Len(log')].object_id = inst[p].pk]_vars

C5_ResetAllOrNothing ==
    /\ [](\A p \in Procs :
            pc[p] = "reset" /\ Exists(inst[p].pk)
            => users[inst[p].pk].pw_reset_token # inst[p].pw_reset_token)
    /\ [](result.status = "NameError"
            => /\ Exists(inst[result.proc].pk)
                  => users[inst[result.proc].pk].pw_reset_token
                       # inst[result.proc].pw_reset_token
               /\ \A k \in 1..Len(log) : log[k].action_type # "user.password.reset")
    /\ [][\A p \in Procs :
            ResetDraws(p) \/ ResetEnds(p)
            => \/ users' = users /\ log' = log
               \/ /\ users'[inst'[p].pk].pw_reset_token = inst'[p].pw_reset_token
                  /\ users'[inst'[p].pk].pw_reset_time = inst'[p].pw_reset_time
                  /\ Len(log') = Len(log) + 1
                  /\ log'[Len(log')].action_type = "user.password.reset"]_vars

\* A reset has just failed: the instance carries the new token, the row does not.
C5_Witness ==
    /\ result.status = "NameError"
    /\ pc[result.proc] = "idle"
    /\ inst[result.proc].pw_reset_token # None
    /\ Exists(inst[result.proc].pk)
    /\ users[inst[result.proc].pk].pw_reset_token = None

\* No upper-case letter, no blank at either end.
IsLowerTrimmed(s) ==
    /\ \A i \in 1..Len(s) : s[i] # "A"
    /\ s # <<>> => s[1] # " " /\ s[Len(s)] # " "

\* C6: every persisted e-mail is lower-cased and trimmed, normalising is
\* idempotent, no two users have the same normalised e-mail, and creating
\* a user whose e-mail normalises to an existing user's is refused and
\* leaves the users as they were.
C6_EmailNormalisedUnique ==
    /\ [](/\ \A u \in DOMAIN users : IsLowerTrimmed(users[u].email)
          /\ \A e \in EmailInputs : NormalizeEmail(NormalizeEmail(e)) = NormalizeEmail(e)
          /\ \A u, v \in DOMAIN users :
               u # v => NormalizeEmail(users[u].email) # NormalizeEmail(users[v].email))
    /\ [][\A p \in Procs, e \in EmailInputs :
            /\ CreateUser(p, e, FALSE)
            /\ \E u \in DOMAIN users :
                 Strip(Lower(users[u].email)) = Strip(Lower(e))
            => users' = users /\ result' = Raised(p, "IntegrityError")]_vars

\* A create whose address differs from a stored one by case or blanks was refused.
C6_Witness ==
    /\ result.status = "IntegrityError"
    /\ pc[result.proc] = "none"
    /\ ~IsLowerTrimmed(lastEmail)
    /\ \E u \in DOMAIN users : users[u].email = Strip(Lower(lastEmail))
    /\ \A u \in DOMAIN users : users[u].email # lastEmail

\* C7: publishing a post whose payload lacks a key its kind requires fails
\* with a validation error and stores nothing, and publishing one whose
\* payload carries the required keys stores the post.
C7_PayloadValidated ==
    [][\A p \in Procs, kind \in PostType, data \in SUBSET PayloadKeys :
         PublishPost(p, kind, data)
         => IF HasRequiredKeys(kind, data)
            THEN posts' # posts /\ result'.status = "ok"
            ELSE posts' = posts /\ result' = Raised(p, "ValidationError")]_vars

C9_DisplayFallsBack ==
    /\ rendered.action_type \in {"user.password.reset", "user.token.reset"}
       => rendered.text = ACTIONS_MAP[rendered.action_type]
    /\ rendered.action_type \notin {"user.password.reset", "user.token.reset"}
       => rendered.text = rendered.action_type

\* An unknown tag was rendered as itself, with a warning.
C9_Witness ==
    /\ rendered.action_type = "user.created"
    /\ rendered.text = "user.created"
    /\ rendered.warning

\* Worker p's delete reaches Model.delete() in this step.
DeleteEnds(p) == pc[p] = "delete" /\ pc'[p] # "delete"

\* C3: deleting a user who is the actor of a journal row is refused and the
\* row stays; deleting one who is not removes the user, the user's posts,
\* every reaction on those posts and every reaction the user made.
C3_DeleteProtectsOrCascades ==
    [][\A p \in Procs :
         DeleteEnds(p)
         => LET u == inst[p].pk IN
            IF \E k \in 1..Len(log) : log[k].user = u
            THEN /\ result' = Raised(p, "ProtectedError")
                 /\ Exists(u) => u \in DOMAIN users' /\ users'[u] = users[u]
            ELSE /\ result'.status = "ok"
                 /\ u \notin DOMAIN users'
                 /\ \A q \in posts' : q.user # u
                 /\ \A r \in reactions' :
                      /\ r.user # u
                      /\ \A q \in posts : q.user = u => r.post # q.id]_vars

\* A delete went through and took every post and every reaction that had
\* been made with it, while another user stays.
C3_Witness ==
    /\ result.status = "ok"
    /\ pc[result.proc] = "none"
    /\ DOMAIN users # {}
    /\ nextPost > 1 /\ posts = {}
    /\ nextReaction > MaxReactions /\ reactions = {}

\* C10: after a refused delete the user's avatar file is still in the storage.
C10_RefusedDeleteKeepsFiles ==
    result.status = "ProtectedError"
    => \A u \in DOMAIN users :
         u = inst[result.proc].pk /\ users[u].avatar # None
         => users[u].avatar \in files

====
